---- MODULE Spec2Model ----
(***************************************************************************)
(* Model of cotopaxi's common_utils.py: the CotopaxiTester orchestration   *)
(* loop (parse_args, perform_testing), the TestParams statistics hooks and *)
(* the three transport strategies (tcp_sr1, udp_sr1, ssdp_send_query)      *)
(* behind the dispatcher sr1_file.                                         *)
(*                                                                         *)
(* Four specifications share the variables:                                *)
(*   Spec      - one CotopaxiTester: parse_args, then runs of              *)
(*               perform_testing over list_ips x list_ports with a         *)
(*               caller-supplied test function seen as a black box that    *)
(*               returns, is interrupted, or raises;                       *)
(*   SpecParse - the same tester in a process whose command line is part   *)
(*               of the state, so that what prepare_ips and prepare_ports  *)
(*               make of dest_ip and dest_port can be read off;            *)
(*   SpecProbe - one TestParams: a sequence of probes through sr1_file or  *)
(*               udp_sr1(dtls_wrap=True), each strategy followed statement *)
(*               by statement with the network's answers nondeterministic, *)
(*               and the test function recording each result;              *)
(*   SpecCalc  - the helper functions protocol_enabled, message_loss and   *)
(*               amplification_factor called on drawn arguments, and       *)
(*               print_stats called on drawn statistics.                   *)
(***************************************************************************)
EXTENDS Integers, Sequences, FiniteSets, TLC

(***************************************************************************)
(* Bounds of the model                                                     *)
(***************************************************************************)
MaxIps == 2          \* address items given to --dest_ip
MaxPortParts == 2    \* comma-separated parts given to --dest_port
MaxPort == 2         \* ports are 1..MaxPort
MaxRuns == 2         \* calls of perform_testing on one tester
MaxRetries == 1      \* --retries is in 0..MaxRetries
MaxProbes == 2       \* strategy calls on one TestParams
MaxReplies == 2      \* replies ssdp_send_query drops in one probe
MaxClock == 40       \* the clock stops at MaxClock ticks

(***************************************************************************)
(* Addresses are texts: sequences of characters.  str() of an IPy address  *)
(* is such a text, and sorted() compares texts character by character.     *)
(***************************************************************************)
Addr4a == <<"1", ".", "0", ".", "0", ".", "1">>
Addr6 == <<"1", ":", ":", "1">>
Addr4b == <<"2", ".", "0", ".", "0", ".", "1">>
AddrPool == {Addr4a, Addr6, Addr4b}

Range(s) == {s[k] : k \in DOMAIN s}

Digits == <<"0", "1", "2", "3", "4", "5", "6", "7", "8", "9">>

IsDigit(c) == c \in Range(Digits)

DigitValue(c) == (CHOOSE k \in DOMAIN Digits : Digits[k] = c) - 1

\* ord() of the characters that occur in address texts
CharCode(c) ==
    IF IsDigit(c) THEN 48 + DigitValue(c)
    ELSE CASE c = "." -> 46
           [] c = ":" -> 58

\* a < b for Python strings
StrLess(a, b) ==
    \E k \in 1..(Len(a) + 1) :
        /\ \A m \in 1..(k - 1) : m <= Len(b) /\ a[m] = b[m]
        /\ \/ k = Len(a) + 1 /\ Len(b) >= k
           \/ k <= Len(a) /\ k <= Len(b) /\ CharCode(a[k]) < CharCode(b[k])

\* sorted(S) for a set of texts
SortedTexts(S) ==
    CHOOSE s \in [1..Cardinality(S) -> S] :
        \A m, n \in 1..Cardinality(S) : m < n => StrLess(s[m], s[n])

\* sorted(S) for a set of integers
SortedInts(S) ==
    CHOOSE s \in [1..Cardinality(S) -> S] :
        \A m, n \in 1..Cardinality(S) : m < n => s[m] < s[n]

\* IPY_IP(text).version(): a text with a colon is an IPv6 literal
IPY_version(text) == IF \E k \in DOMAIN text : text[k] = ":" THEN 6 ELSE 4

\* the sequences over S of length at most n
SeqUpTo(S, n) == UNION {[1..k -> S] : k \in 0..n}

\* int(text) does not raise ValueError: text is a decimal numeral
IsInt(text) == Len(text) > 0 /\ \A k \in DOMAIN text : IsDigit(text[k])

\* int(text) of a decimal numeral
RECURSIVE int(_)
int(text) ==
    IF Len(text) = 0 THEN 0
    ELSE 10 * int(SubSeq(text, 1, Len(text) - 1)) + DigitValue(text[Len(text)])

\* the decimal numeral of n, as str and format write it
RECURSIVE DecimalText(_)
DecimalText(n) ==
    IF n < 10 THEN <<Digits[n + 1]>>
    ELSE DecimalText(n \div 10) \o <<Digits[(n % 10) + 1]>>

\* text.find(sep) + 1: the first position of sep, 0 if there is none
IndexOf(text, sep) ==
    IF \E k \in DOMAIN text : text[k] = sep
    THEN CHOOSE k \in DOMAIN text :
            text[k] = sep /\ \A j \in 1..(k - 1) : text[j] # sep
    ELSE 0

\* text.split(sep)
RECURSIVE Split(_, _)
Split(text, sep) ==
    IF IndexOf(text, sep) = 0 THEN <<text>>
    ELSE <<SubSeq(text, 1, IndexOf(text, sep) - 1)>>
         \o Split(SubSeq(text, IndexOf(text, sep) + 1, Len(text)), sep)

\* text.split(sep, 1)
SplitOnce(text, sep) ==
    IF IndexOf(text, sep) = 0 THEN <<text>>
    ELSE <<SubSeq(text, 1, IndexOf(text, sep) - 1),
           SubSeq(text, IndexOf(text, sep) + 1, Len(text))>>

\* sep.join(items)
RECURSIVE Join(_, _)
Join(items, sep) ==
    IF Len(items) = 0 THEN <<>>
    ELSE IF Len(items) = 1 THEN items[1]
    ELSE items[1] \o <<sep>> \o Join(Tail(items), sep)

(***************************************************************************)
(* State                                                                   *)
(***************************************************************************)
VARIABLES
    \* CotopaxiTester
    pc,              \* position of the tester: idle, parsed, exited, running,
                     \* in_test, done
    list_ips,        \* CotopaxiTester.list_ips
    list_ports,      \* CotopaxiTester.list_ports
    show_disclaimer, \* test_params.parsed_options["show_disclaimer"]
    test_cases,      \* argument of perform_testing: [given, items]
    ip_idx,          \* position of the outer loop (for dest_ip in list_ips)
    port_idx,        \* position of the inner loop (for dest_port in list_ports)
    run,             \* number of perform_testing calls started
    calls,           \* invocations of test_function in this run, in order
    stats_printed,   \* print_stats calls in this run
    disclaimers,     \* print_disclaimer calls in this run
    outcome,         \* how this run left the try block
    raised,          \* exception leaving perform_testing
    argv,            \* command line of the process: [dest_ip, dest_port]
    exit_message,    \* argument of exit(), "none" while the process lives
    \* TestParams
    dst_endpoint,    \* test_params.dst_endpoint: [ip_addr, port]
    ip_version,      \* test_params.ip_version
    protocol,        \* test_params.protocol
    timeout_sec,     \* test_params.timeout_sec, in ticks of 0.0001 s
    nr_retries,      \* test_params.nr_retries
    packets_sent,    \* test_stats.packets_sent
    packets_received, \* test_stats.packets_received
    packets_rtt,     \* test_stats.packets_rtt
    active_endpoints,    \* test_stats.active_endpoints, by protocol
    potential_endpoints, \* test_stats.potential_endpoints, by protocol
    inactive_endpoints,  \* test_stats.inactive_endpoints, by protocol
    \* the probe in progress
    ppc,             \* position inside the strategy, "ready" between probes
    strategy,        \* the strategy of the current or last probe
    dtls_wrap,       \* argument of udp_sr1
    sent_time,       \* local sent_time of the strategy (NoTime before it is set)
    sock,            \* local socket handle: "none", "open", "closed"
    attempts,        \* transmissions made by sr1 for this probe
    discarded,       \* replies ssdp_send_query has read and dropped in this probe
    events,          \* hook calls and transmissions of this probe, in order
    returned,        \* value the last strategy call returned
    returned_from,   \* source address of the reply that was returned
    probe_raised,    \* exception that left the last strategy call
    \* environment
    now,             \* time.time(), in ticks of 0.0001 s
    open_sockets,    \* sockets created and not closed by the program
    probes,          \* strategy calls made so far
    classified,      \* strategy calls whose result the test function recorded
    \* reporting and helper functions
    result_names,    \* is each TestParams.*_result_name a non-empty label
    printed,         \* the report of the last print_stats: <<>> or <<report>>
    call,            \* a helper function called with arguments: [fn, args]
    result           \* what the call returned: <<>> or <<value>>

vars == <<pc, list_ips, list_ports, show_disclaimer, test_cases, ip_idx,
          port_idx, run, calls, stats_printed, disclaimers, outcome, raised,
          dst_endpoint, ip_version, protocol, timeout_sec, nr_retries,
          packets_sent, packets_received, packets_rtt, ppc, strategy,
          dtls_wrap, sent_time, sock, attempts, discarded, events, returned,
          returned_from, probe_raised, now, open_sockets, probes, argv,
          exit_message, active_endpoints, potential_endpoints,
          inactive_endpoints, classified, result_names, printed, call,
          result>>

testerVars == <<pc, list_ips, list_ports, show_disclaimer, test_cases, ip_idx,
                port_idx, run, calls, stats_printed, disclaimers, outcome,
                raised, argv, exit_message>>

configVars == <<protocol, nr_retries>>

statsVars == <<packets_sent, packets_received, packets_rtt>>

tableVars == <<active_endpoints, potential_endpoints, inactive_endpoints,
               classified>>

callVars == <<result_names, call, result>>

probeVars == <<ppc, strategy, dtls_wrap, sent_time, sock, attempts, discarded, events,
               returned, returned_from, probe_raised, now, open_sockets,
               probes>>

(***************************************************************************)
(* Values                                                                  *)
(***************************************************************************)
Protocol == {"ALL", "UDP", "TCP", "CoAP", "MQTT", "DTLS", "mDNS", "SSDP",
             "HTCPCP", "RTSP"}

\* sent_time before report_sent_packet has returned
NoTime == 0 - 1

NoEndpoint == [ip_addr |-> <<>>, port |-> 0]

\* Endpoint(): the local address and a port of this host
LocalEndpoint == [ip_addr |-> Addr4a, port |-> MaxPort]

\* a process whose command line is not looked at
NoArgv == [dest_ip |-> <<>>, dest_port |-> <<>>]

\* test_cases=None
NoTestCases == [given |-> FALSE, items |-> <<>>]

TestCaseValues ==
    {NoTestCases,
     [given |-> TRUE, items |-> <<>>],
     [given |-> TRUE, items |-> <<"case">>]}

\* Python truth value of the test_cases argument
Truthy(cases) == cases.given /\ Len(cases.items) > 0

(***************************************************************************)
(* Time.  One tick is 0.0001 s, the value udp_sr1 puts in place of a zero  *)
(* timeout.                                                                *)
(***************************************************************************)
Epsilon == 1

TicksPerSec == 10000 * Epsilon

\* the timeouts --timeout is drawn from: 0 and 2 ms
Timeouts == {0, (2 * TicksPerSec) \div 1000}

Retries == 0..MaxRetries

\* --retries, --timeout and --protocol as parse_args can find them
ArgsRetries ==
    IF argv = NoArgv THEN Retries ELSE {0}

ArgsTimeout ==
    IF argv = NoArgv
    THEN Timeouts ELSE {TicksPerSec}

ArgsProtocol ==
    IF argv = NoArgv
    THEN Protocol ELSE {"ALL"}

(***************************************************************************)
(* Target-space parser                                                     *)
(***************************************************************************)
\* what a parser gives: the list it returns, or the message it exits with
Parsed(list) == [exit |-> "none", value |-> list]

Exits(message) == [exit |-> message, value |-> <<>>]

RECURSIVE Pow2(_)
Pow2(k) == IF k = 0 THEN 1 ELSE 2 * Pow2(k - 1)

\* a dotted quad: four decimal fields of at most 255
IsIPv4(text) ==
    /\ Len(Split(text, ".")) = 4
    /\ \A k \in 1..4 :
          /\ IsInt(Split(text, ".")[k])
          /\ Len(Split(text, ".")[k]) <= 3
          /\ int(Split(text, ".")[k]) <= 255

\* the 32-bit value of a dotted quad
IPv4Int(text) ==
    ((int(Split(text, ".")[1]) * 256 + int(Split(text, ".")[2])) * 256
        + int(Split(text, ".")[3])) * 256 + int(Split(text, ".")[4])

\* str() of an IPv4 address
Dotted(n) ==
    Join(<<DecimalText(n \div 16777216), DecimalText((n \div 65536) % 256),
           DecimalText((n \div 256) % 256), DecimalText(n % 256)>>, ".")

\* the IPv6 literals the model knows; they are in the compressed form that
\* str() gives back unchanged
IPv6Pool == {Addr6}

\* a prefix length after the slash
IsPrefixLen(text) == IsInt(text) /\ Len(text) <= 2 /\ int(text) <= 32

\* variant: the address is kept as the start of the block (make_net left out)
MakeNet_Unmasked(ip, size) == ip

\* make_net=1: the host bits of the address are cleared
MakeNet(ip, size) == ip - (ip % size)

\* IPY_IP(address_desc, make_net=1): the block of addresses, or ValueError
IPY_IP(address_desc) ==
    LET parts == Split(address_desc, "/")
        size == IF Len(parts) = 1 THEN 1 ELSE Pow2(32 - int(parts[2]))
    IN  IF Len(parts) = 1 /\ parts[1] \in IPv6Pool
        THEN [ok |-> TRUE, version |-> 6, text |-> parts[1], net |-> 0,
              size |-> 1]
        ELSE IF /\ IsIPv4(parts[1])
                /\ Len(parts) = 1 \/ (Len(parts) = 2 /\ IsPrefixLen(parts[2]))
        THEN [ok |-> TRUE, version |-> 4, text |-> <<>>,
              net |-> MakeNet(IPv4Int(parts[1]), size), size |-> size]
        ELSE [ok |-> FALSE, version |-> 0, text |-> <<>>, net |-> 0,
              size |-> 0]

\* map(str, ...) over the addresses an IP object iterates over
AddressTexts(ip) ==
    IF ip.version = 6 THEN {ip.text}
    ELSE {Dotted(ip.net + k) : k \in 0..(ip.size - 1)}

\* prepare_ips(ips_input)
prepare_ips(ips_input) ==
    LET items == Split(ips_input, ",")
    IN  IF \E k \in DOMAIN items : ~IPY_IP(items[k]).ok
        THEN Exits("Cannot parse IP address")
        ELSE Parsed(SortedTexts(
                UNION {AddressTexts(IPY_IP(items[k])) : k \in DOMAIN items}))

\* variant: the upper end of the range is left out
PortRange_Exclusive(part) == part[1]..(part[Len(part)] - 1)

\* range(ip_range[0], ip_range[-1] + 1) for ip_range = <<p>> or <<low, high>>
PortRange(part) == part[1]..part[Len(part)]

\* map(int, part.split("-", 1)), where every field is a numeral
MapInt(fields) == [k \in DOMAIN fields |-> int(fields[k])]

\* variant: a part that is no number is reported and skipped
prepare_ports_ErrorSkipped(port_input) ==
    LET parts == Split(port_input, ",")
        good == {k \in DOMAIN parts :
                    \A f \in Range(SplitOnce(parts[k], "-")) : IsInt(f)}
    IN  Parsed(SortedInts(
            UNION {PortRange(MapInt(SplitOnce(parts[k], "-"))) : k \in good}))

\* prepare_ports(port_input)
prepare_ports(port_input) ==
    LET parts == Split(port_input, ",")
    IN  IF \E k \in DOMAIN parts :
              \E f \in Range(SplitOnce(parts[k], "-")) : ~IsInt(f)
        THEN Exits("Cannot parse port")
        ELSE Parsed(SortedInts(
                UNION {PortRange(MapInt(SplitOnce(parts[k], "-"))) :
                         k \in DOMAIN parts}))

Ports == 1..MaxPort

PortParts == {<<p>> : p \in Ports} \cup {<<l, h>> : l \in Ports, h \in Ports}

\* a part as it is written on the command line: "p" or "low-high"
PortText(part) ==
    IF Len(part) = 1 THEN DecimalText(part[1])
    ELSE DecimalText(part[1]) \o <<"-">> \o DecimalText(part[2])

PortItems == {PortText(part) : part \in PortParts}

\* items that are no address and no port
BadAddr == <<"1", ".", "0", ".", "0", ".", "x">>

BadPortItems == {<<"x">>, <<"1", "-">>}

\* CIDR blocks of two addresses; the first is not written with its network
\* address
CidrPool ==
    {<<"1", ".", "0", ".", "0", ".", "9", "/", "3", "1">>,
     <<"1", ".", "0", ".", "0", ".", "1", "0", "/", "3", "1">>}

\* the example of the prepare_ports docstring
ExamplePortSpec ==
    <<"1", "0", "1", ",", "1", "0", "3", "-", "1", "0", "5", ",",
      "1", "0", "4", ",", "2", "4", "2">>

\* the --dest_ip values made of at most MaxIps items
IpSpecs(items) == {Join(seq, ",") : seq \in SeqUpTo(items, MaxIps) \ {<<>>}}

\* the --dest_port values made of at most MaxPortParts parts
PortSpecs(items) ==
    {Join(seq, ",") : seq \in SeqUpTo(items, MaxPortParts) \ {<<>>}}

\* command lines with one of the two target options varied
ArgvPool ==
    {[dest_ip |-> t, dest_port |-> PortText(<<MaxPort>>)] :
        t \in IpSpecs(AddrPool \cup CidrPool \cup {BadAddr})}
    \cup {[dest_ip |-> Addr4a, dest_port |-> t] :
        t \in PortSpecs(PortItems \cup BadPortItems) \cup {ExamplePortSpec}}

\* the values parse_args can find in args: those of the command line when
\* the process has one (options not given take the argparse defaults), any
\* of the pools when the caller passes its own list
ArgsDestIp ==
    IF argv = NoArgv
    THEN IpSpecs(AddrPool) \cup {BadAddr}
    ELSE {argv.dest_ip}

ArgsDestPort ==
    IF argv = NoArgv
    THEN PortSpecs(PortItems) \cup BadPortItems
    ELSE {argv.dest_port}

(***************************************************************************)
(* TestParams                                                              *)
(***************************************************************************)
\* TestParams.set_ip_version: the new value of ip_version
set_ip_version(version, ip_addr) ==
    IF IPY_version(ip_addr) = 6 THEN 6 ELSE version

(***************************************************************************)
(* Reporting                                                               *)
(***************************************************************************)
\* variant: only the division by zero is guarded
message_loss_Unclamped(sent, received) ==
    IF sent > 0
    THEN [num |-> 100 * (sent - received), den |-> sent]
    ELSE [num |-> 0, den |-> 1]

\* message_loss(sent, received): the float as the fraction num / den
message_loss(sent, received) ==
    IF sent > 0 /\ received <= sent
    THEN [num |-> 100 * (sent - received), den |-> sent]
    ELSE [num |-> 0, den |-> 1]

\* min(...), max(...) and sum(...) of a non-empty list of integers
min(list) == CHOOSE x \in Range(list) : \A y \in Range(list) : x <= y

max(list) == CHOOSE x \in Range(list) : \A y \in Range(list) : y <= x

RECURSIVE sum(_)
sum(list) == IF list = <<>> THEN 0 ELSE Head(list) + sum(Tail(list))

\* a line of the report that was not printed, and one that was, with the
\* values it shows
NoLine == <<>>

Line(values) == <<values>>

\* the three labels TestParams.__init__ sets
DefaultNames == [positive |-> TRUE, potential |-> TRUE, negative |-> TRUE]

\* set().update(set(proto_results)) over every protocol of a table
UpdatedFrom(table) == UNION {Range(table[proto]) : proto \in DOMAIN table}

\* what print_stats prints: the counters with the loss, the round-trip line,
\* and the totals of the three local sets.  The local set potential_endpoints
\* is tested for its total before the loop that fills it, and the local set
\* inactive_endpoints is filled under the potential label only.
StatsReport ==
    LET active == UpdatedFrom(active_endpoints)
        potential_when_tested == {}
        potential == IF result_names.potential
                     THEN UpdatedFrom(potential_endpoints) ELSE {}
        inactive == IF result_names.potential
                    THEN UpdatedFrom(inactive_endpoints) ELSE {}
    IN  [sent |-> packets_sent,
         received |-> packets_received,
         loss |-> message_loss(packets_sent, packets_received),
         rtt |-> IF packets_rtt # <<>>
                 THEN Line([min |-> min(packets_rtt),
                            avg |-> sum(packets_rtt) \div Len(packets_rtt),
                            max |-> max(packets_rtt)])
                 ELSE NoLine,
         active_total |-> IF result_names.positive
                          THEN Line(Cardinality(active)) ELSE NoLine,
         potential_total |->
             IF /\ result_names.positive
                /\ result_names.potential
                /\ potential_when_tested # {}
             THEN Line(Cardinality(potential_when_tested)) ELSE NoLine,
         inactive_total |->
             IF result_names.positive /\ result_names.negative
             THEN Line(Cardinality((inactive \ active) \ potential))
             ELSE NoLine]

\* TestParams.print_stats
print_stats ==
    /\ stats_printed' = stats_printed + 1
    /\ printed' = Line(StatsReport)

\* no report yet, the labels of TestParams.__init__
InitReport ==
    /\ result_names = DefaultNames
    /\ printed = NoLine

\* no helper function called
NoCall == [fn |-> "none", args |-> <<>>]

InitNoCall ==
    /\ call = NoCall
    /\ result = <<>>

(***************************************************************************)
(* CotopaxiTester                                                          *)
(***************************************************************************)
\* CotopaxiTester.__init__ and TestParams.__init__
InitTester ==
    /\ pc = "idle"
    /\ list_ips = <<>>
    /\ list_ports = <<>>
    /\ show_disclaimer = FALSE
    /\ test_cases = NoTestCases
    /\ ip_idx = 1
    /\ port_idx = 1
    /\ run = 0
    /\ calls = <<>>
    /\ stats_printed = 0
    /\ disclaimers = 0
    /\ outcome = "none"
    /\ raised = "none"
    /\ exit_message = "none"

\* TestStatistics.__init__
InitStats ==
    /\ packets_sent = 0
    /\ packets_received = 0
    /\ packets_rtt = <<>>
    /\ active_endpoints = [proto \in Protocol |-> <<>>]
    /\ potential_endpoints = [proto \in Protocol |-> <<>>]
    /\ inactive_endpoints = [proto \in Protocol |-> <<>>]

InitNoProbe ==
    /\ ppc = "ready"
    /\ strategy = "none"
    /\ dtls_wrap = FALSE
    /\ sent_time = NoTime
    /\ sock = "none"
    /\ attempts = 0
    /\ discarded = 0
    /\ events = <<>>
    /\ returned = "unset"
    /\ returned_from = NoEndpoint
    /\ probe_raised = "none"
    /\ now = 0
    /\ open_sockets = 0
    /\ probes = 0
    /\ classified = 0

Init ==
    /\ InitTester
    /\ argv = NoArgv
    /\ dst_endpoint = LocalEndpoint
    /\ ip_version = 4
    /\ protocol = "ALL"
    /\ timeout_sec = TicksPerSec
    /\ nr_retries = 0
    /\ InitStats
    /\ InitNoProbe
    /\ InitReport
    /\ InitNoCall

\* CotopaxiTester.parse_args
parse_args ==
    /\ pc = "idle"
    /\ \E dest_ip \in ArgsDestIp :
          LET ips == prepare_ips(dest_ip)
          IN  IF ips.exit # "none"
              THEN /\ exit_message' = ips.exit
                   /\ pc' = "exited"
                   /\ UNCHANGED <<list_ips, list_ports>>
              ELSE /\ list_ips' = ips.value
                   /\ \E dest_port \in ArgsDestPort :
                         LET ports == prepare_ports(dest_port)
                         IN  IF ports.exit # "none"
                             THEN /\ exit_message' = ports.exit
                                  /\ pc' = "exited"
                                  /\ UNCHANGED list_ports
                             ELSE /\ list_ports' = ports.value
                                  /\ pc' = "parsed"
                                  /\ UNCHANGED exit_message
    /\ nr_retries' \in ArgsRetries
    /\ timeout_sec' \in ArgsTimeout
    /\ protocol' \in ArgsProtocol
    /\ show_disclaimer' \in BOOLEAN
    /\ UNCHANGED <<test_cases, ip_idx, port_idx, run, calls, stats_printed,
                   disclaimers, outcome, raised, dst_endpoint, ip_version>>
    /\ UNCHANGED <<argv, tableVars, callVars, printed>>
    /\ UNCHANGED <<statsVars, probeVars>>

\* perform_testing up to the try statement
perform_testing ==
    /\ pc \in {"idle", "parsed", "done"}
    /\ run < MaxRuns
    /\ run' = run + 1
    /\ test_cases' \in TestCaseValues
    /\ disclaimers' = IF show_disclaimer THEN 1 ELSE 0
    /\ ip_idx' = 1
    /\ port_idx' = 1
    /\ calls' = <<>>
    /\ stats_printed' = 0
    /\ outcome' = "none"
    /\ raised' = "none"
    /\ pc' = "running"
    /\ UNCHANGED <<list_ips, list_ports, show_disclaimer, dst_endpoint,
                   ip_version, timeout_sec>>
    /\ UNCHANGED <<argv, exit_message, tableVars, callVars, printed>>
    /\ UNCHANGED <<configVars, statsVars, probeVars>>

\* the nested for loops have a next (dest_ip, dest_port)
HasNext == ip_idx <= Len(list_ips) /\ port_idx <= Len(list_ports)

\* one iteration of the loops up to the call of test_function
InvokeTestFunction ==
    /\ pc = "running"
    /\ HasNext
    /\ dst_endpoint' = [ip_addr |-> list_ips[ip_idx],
                        port |-> list_ports[port_idx]]
    /\ ip_version' = set_ip_version(ip_version, list_ips[ip_idx])
    /\ calls' = Append(calls,
                       [dst |-> dst_endpoint',
                        ip_version |-> ip_version',
                        nargs |-> IF Truthy(test_cases) THEN 2 ELSE 1,
                        cases |-> IF Truthy(test_cases) THEN test_cases
                                  ELSE NoTestCases])
    /\ pc' = "in_test"
    /\ UNCHANGED <<list_ips, list_ports, show_disclaimer, test_cases, ip_idx,
                   port_idx, run, stats_printed, disclaimers, outcome, raised,
                   timeout_sec>>
    /\ UNCHANGED <<argv, exit_message, tableVars, callVars, printed>>
    /\ UNCHANGED <<configVars, statsVars, probeVars>>

\* test_function returns and the loops advance
TestFunctionReturns ==
    /\ pc = "in_test"
    /\ IF port_idx < Len(list_ports)
       THEN port_idx' = port_idx + 1 /\ ip_idx' = ip_idx
       ELSE port_idx' = 1 /\ ip_idx' = ip_idx + 1
    /\ pc' = "running"
    /\ UNCHANGED <<list_ips, list_ports, show_disclaimer, test_cases, run,
                   calls, stats_printed, disclaimers, outcome, raised,
                   dst_endpoint, ip_version, timeout_sec>>
    /\ UNCHANGED <<argv, exit_message, tableVars, callVars, printed>>
    /\ UNCHANGED <<configVars, statsVars, probeVars>>

\* the loops are exhausted: "Finished" is printed, then the finally clause
LoopCompletes ==
    /\ pc = "running"
    /\ ~HasNext
    /\ outcome' = "completed"
    /\ print_stats
    /\ pc' = "done"
    /\ UNCHANGED <<list_ips, list_ports, show_disclaimer, test_cases, ip_idx,
                   port_idx, run, calls, disclaimers, raised, dst_endpoint,
                   ip_version, timeout_sec>>
    /\ UNCHANGED <<argv, exit_message, tableVars, callVars>>
    /\ UNCHANGED <<configVars, statsVars, probeVars>>

\* variant: the interrupt is caught inside the loop body, which goes on
KeyboardInterrupt_InsideLoop ==
    /\ pc = "in_test"
    /\ outcome' = "interrupted"
    /\ raised' = "none"
    /\ IF port_idx < Len(list_ports)
       THEN port_idx' = port_idx + 1 /\ ip_idx' = ip_idx
       ELSE port_idx' = 1 /\ ip_idx' = ip_idx + 1
    /\ pc' = "running"
    /\ UNCHANGED <<list_ips, list_ports, show_disclaimer, test_cases, run,
                   calls, stats_printed, disclaimers, dst_endpoint,
                   ip_version, timeout_sec>>
    /\ UNCHANGED <<argv, exit_message, tableVars, callVars, printed>>
    /\ UNCHANGED <<configVars, statsVars, probeVars>>

\* KeyboardInterrupt inside the try block: except clause, then finally
KeyboardInterrupt ==
    /\ pc \in {"running", "in_test"}
    /\ outcome' = "interrupted"
    /\ raised' = "none"
    /\ print_stats
    /\ pc' = "done"
    /\ UNCHANGED <<list_ips, list_ports, show_disclaimer, test_cases, ip_idx,
                   port_idx, run, calls, disclaimers, dst_endpoint,
                   ip_version, timeout_sec>>
    /\ UNCHANGED <<argv, exit_message, tableVars, callVars>>
    /\ UNCHANGED <<configVars, statsVars, probeVars>>

\* variant: print_stats after the try statement instead of in finally
TestFunctionRaises_NoFinally ==
    /\ pc = "in_test"
    /\ outcome' = "error"
    /\ raised' = "Exception"
    /\ pc' = "done"
    /\ UNCHANGED <<list_ips, list_ports, show_disclaimer, test_cases, ip_idx,
                   port_idx, run, calls, stats_printed, disclaimers,
                   dst_endpoint, ip_version, timeout_sec>>
    /\ UNCHANGED <<argv, exit_message, tableVars, callVars, printed>>
    /\ UNCHANGED <<configVars, statsVars, probeVars>>

\* test_function raises anything else: finally, then the exception leaves
TestFunctionRaises ==
    /\ pc = "in_test"
    /\ outcome' = "error"
    /\ raised' = "Exception"
    /\ print_stats
    /\ pc' = "done"
    /\ UNCHANGED <<list_ips, list_ports, show_disclaimer, test_cases, ip_idx,
                   port_idx, run, calls, disclaimers, dst_endpoint,
                   ip_version, timeout_sec>>
    /\ UNCHANGED <<argv, exit_message, tableVars, callVars>>
    /\ UNCHANGED <<configVars, statsVars, probeVars>>

Next ==
    \/ parse_args
    \/ perform_testing
    \/ InvokeTestFunction
    \/ TestFunctionReturns
    \/ LoopCompletes
    \/ KeyboardInterrupt
    \/ TestFunctionRaises

Spec == Init /\ [][Next]_vars

\* a tester in a process started with a command line
InitParse ==
    /\ InitTester
    /\ argv \in ArgvPool
    /\ dst_endpoint = LocalEndpoint
    /\ ip_version = 4
    /\ protocol = "ALL"
    /\ timeout_sec = TicksPerSec
    /\ nr_retries = 0
    /\ InitStats
    /\ InitNoProbe
    /\ InitReport
    /\ InitNoCall

SpecParse == InitParse /\ [][Next]_vars

(***************************************************************************)
(* Statistics hooks                                                        *)
(***************************************************************************)
\* the clock after d more ticks
Later(d) == IF now + d <= MaxClock THEN now + d ELSE MaxClock

\* int(x / d) for Python floats: truncation towards zero
IntOfQuotient(x, d) == IF x >= 0 THEN x \div d ELSE 0 - ((0 - x) \div d)

\* int(1000 * (response_time - sent_time)), the times in ticks
RttMs(response_time, token) ==
    IntOfQuotient(1000 * (response_time - token), TicksPerSec)

Event(name, at) == [ev |-> name, at |-> at]

Count(name) == Cardinality({k \in DOMAIN events : events[k].ev = name})

\* variant: the hook returns the time without counting the packet
report_sent_packet_NoCount == packets_sent' = packets_sent

\* TestParams.report_sent_packet: the counter; the caller keeps now as token
report_sent_packet == packets_sent' = packets_sent + 1

\* variant: the list keeps the latest sample only
report_received_packet_LatestOnly(token, response_time) ==
    /\ packets_received' = packets_received + 1
    /\ packets_rtt' = <<RttMs(response_time, token)>>

\* TestParams.report_received_packet(token), called at time response_time
report_received_packet(token, response_time) ==
    /\ packets_received' = packets_received + 1
    /\ packets_rtt' = Append(packets_rtt, RttMs(response_time, token))

(***************************************************************************)
(* Transport strategies.  A strategy call starts at ppc = "ready", stops   *)
(* at each socket operation for the network's answer, and is back at       *)
(* "ready" when it has returned or raised.                                 *)
(***************************************************************************)
\* reply latencies: at once, or after 1.5 ms
Delays == {0, (3 * TicksPerSec) \div 2000}

\* latencies a receive with the given timeout can see
DelaysWithin(timeout) == {d \in Delays : d <= timeout}

\* a socket without settimeout: its operations block without limit
NoTimeout == 0 - 1

\* the timeout in force on the operation at ppc: sr1(timeout=...) in udp_sr1,
\* settimeout(timeout_sec) in tcp_sr1 and ssdp_send_query; the socket of the
\* dtls_wrap branch gets none
AppliedTimeout ==
    CASE ppc = "sr1" -> timeout_sec
      [] ppc \in {"tcp_connect", "tcp_send", "tcp_recv"} -> timeout_sec
      [] ppc = "ssdp_recvfrom" -> timeout_sec
      [] OTHER -> NoTimeout

\* the strategy returns value (a reply from source, or None)
Return(value, source) ==
    /\ ppc' = "ready"
    /\ returned' = value
    /\ returned_from' = source
    /\ probe_raised' = "none"

\* an exception leaves the strategy
Raise(exc) ==
    /\ ppc' = "ready"
    /\ returned' = "unset"
    /\ returned_from' = NoEndpoint
    /\ probe_raised' = exc

\* the strategy goes on to the statement at position: nothing returned yet
Goto(position) ==
    /\ ppc' = position
    /\ returned' = "unset"
    /\ returned_from' = NoEndpoint
    /\ probe_raised' = "none"

\* a strategy is entered: its locals are fresh
Enter(name, wrap) ==
    /\ strategy' = name
    /\ dtls_wrap' = wrap
    /\ probes' = probes + 1
    /\ attempts' = 0
    /\ discarded' = 0

\* udp_sr1 from its first statement to the first socket operation
udp_sr1(wrap) ==
    /\ Enter("udp_sr1", wrap)
    /\ report_sent_packet
    /\ sent_time' = now
    /\ UNCHANGED <<packets_received, packets_rtt, now>>
    /\ IF ~wrap
       THEN /\ timeout_sec' = IF timeout_sec = 0 THEN Epsilon ELSE timeout_sec
            /\ events' = <<Event("report_sent_packet", now)>>
            /\ Goto("sr1")
            /\ sock' = "none"
            /\ UNCHANGED open_sockets
       ELSE /\ UNCHANGED timeout_sec
            /\ IF ip_version = 4
               THEN \/ /\ sock' = "open"
                       /\ open_sockets' = open_sockets + 1
                       /\ events' = <<Event("report_sent_packet", now),
                                      Event("socket", now)>>
                       /\ Goto("dtls_connect")
                    \/ /\ sock' = "none"
                       /\ UNCHANGED open_sockets
                       /\ events' = <<Event("report_sent_packet", now)>>
                       /\ Raise("socket.error")
               ELSE /\ sock' = "none"
                    /\ UNCHANGED open_sockets
                    /\ events' = <<Event("report_sent_packet", now)>>
                    /\ Return("None", NoEndpoint)

\* scapy's sr1 inside udp_sr1: one transmission and the wait for its answer
\* (sr1 opens and closes its own socket)
Sr1Attempt ==
    /\ ppc = "sr1"
    /\ attempts' = attempts + 1
    /\ UNCHANGED <<testerVars, tableVars, callVars, printed, dst_endpoint,
                   ip_version, configVars,
                   timeout_sec, packets_sent, strategy, dtls_wrap, sent_time,
                   sock, discarded, open_sockets, probes>>
    /\ \/ \E d \in DelaysWithin(timeout_sec) :
            /\ now' = Later(d)
            /\ report_received_packet(sent_time, now')
            /\ events' = events \o <<Event("transmit", now),
                                     Event("response", now'),
                                     Event("report_received_packet", sent_time)>>
            /\ Return("data", dst_endpoint)
       \/ /\ now' = Later(timeout_sec)
          /\ events' = Append(events, Event("transmit", now))
          /\ UNCHANGED <<packets_received, packets_rtt>>
          /\ IF attempts' <= nr_retries
             THEN Goto("sr1")
             ELSE Return("None", NoEndpoint)
       \/ /\ UNCHANGED <<now, events, packets_received, packets_rtt>>
          /\ Raise("socket.error")

\* udp_sr1 with dtls_wrap: sock.connect
DtlsConnect ==
    /\ ppc = "dtls_connect"
    /\ UNCHANGED <<testerVars, tableVars, callVars, printed, dst_endpoint,
                   ip_version, configVars,
                   timeout_sec, statsVars, strategy, dtls_wrap, sent_time,
                   sock, attempts, discarded, events, now, open_sockets,
                   probes>>
    /\ \/ Goto("dtls_send")
       \/ Raise("socket.error")

\* udp_sr1 with dtls_wrap: sock.send
DtlsSend ==
    /\ ppc = "dtls_send"
    /\ UNCHANGED <<testerVars, tableVars, callVars, printed, dst_endpoint,
                   ip_version, configVars,
                   timeout_sec, statsVars, strategy, dtls_wrap, sent_time,
                   sock, attempts, discarded, now, open_sockets, probes>>
    /\ \/ /\ events' = Append(events, Event("transmit", now))
          /\ Goto("dtls_recv")
       \/ /\ UNCHANGED events
          /\ Raise("socket.error")

\* udp_sr1 with dtls_wrap: sock.recv on a socket without timeout, then
\* "if response: test_params.report_sent_packet(sent_time)", a call with one
\* argument too many
DtlsRecv ==
    /\ ppc = "dtls_recv"
    /\ UNCHANGED <<testerVars, tableVars, callVars, printed, dst_endpoint,
                   ip_version, configVars,
                   timeout_sec, statsVars, strategy, dtls_wrap, sent_time,
                   sock, attempts, discarded, open_sockets, probes>>
    /\ \/ \E d \in Delays :
            /\ now' = Later(d)
            /\ events' = Append(events, Event("response", now'))
            /\ Raise("TypeError")
       \/ /\ UNCHANGED <<now, events>>
          /\ Raise("socket.error")

\* connect_handler.close() in the finally clause of tcp_sr1
Close ==
    /\ sock' = "closed"
    /\ open_sockets' = open_sockets - 1

\* tcp_sr1 from its first statement to connect_handler.settimeout
tcp_sr1 ==
    /\ Enter("tcp_sr1", FALSE)
    /\ report_sent_packet
    /\ sent_time' = now
    /\ UNCHANGED <<packets_received, packets_rtt, now, timeout_sec>>
    /\ \/ /\ sock' = "open"
          /\ open_sockets' = open_sockets + 1
          /\ events' = <<Event("report_sent_packet", now),
                         Event("socket", now)>>
          /\ Goto("tcp_connect")
       \/ /\ sock' = "none"
          /\ UNCHANGED open_sockets
          /\ events' = <<Event("report_sent_packet", now)>>
          /\ Return("None", NoEndpoint)

\* connect_handler.connect: established, or socket.error / socket.timeout
TcpConnect ==
    /\ ppc = "tcp_connect"
    /\ UNCHANGED <<testerVars, tableVars, callVars, printed, dst_endpoint,
                   ip_version, configVars,
                   timeout_sec, statsVars, strategy, dtls_wrap, sent_time,
                   attempts, discarded, probes>>
    /\ \/ /\ Goto("tcp_send")
          /\ UNCHANGED <<sock, open_sockets, events, now>>
       \/ /\ now' \in {now, Later(timeout_sec)}
          /\ Close
          /\ events' = Append(events, Event("close", now'))
          /\ Return("None", NoEndpoint)

\* variant: close() after the try statement, without a finally clause
TcpSend_NoFinally ==
    /\ ppc = "tcp_send"
    /\ UNCHANGED <<testerVars, tableVars, callVars, printed, dst_endpoint,
                   ip_version, configVars,
                   timeout_sec, statsVars, strategy, dtls_wrap, sent_time,
                   attempts, discarded, now, probes>>
    /\ \/ /\ events' = Append(events, Event("transmit", now))
          /\ UNCHANGED <<sock, open_sockets>>
          /\ Goto("tcp_recv")
       \/ /\ Close
          /\ events' = Append(events, Event("close", now))
          /\ Return("None", NoEndpoint)
       \/ /\ UNCHANGED <<sock, open_sockets, events>>
          /\ Raise("Exception")

\* connect_handler.send(str(test_packet)): sent, socket.error, or an
\* exception that is no socket error
TcpSend ==
    /\ ppc = "tcp_send"
    /\ UNCHANGED <<testerVars, tableVars, callVars, printed, dst_endpoint,
                   ip_version, configVars,
                   timeout_sec, statsVars, strategy, dtls_wrap, sent_time,
                   attempts, discarded, now, probes>>
    /\ \/ /\ events' = Append(events, Event("transmit", now))
          /\ UNCHANGED <<sock, open_sockets>>
          /\ Goto("tcp_recv")
       \/ /\ Close
          /\ events' = Append(events, Event("close", now))
          /\ Return("None", NoEndpoint)
       \/ /\ Close
          /\ events' = Append(events, Event("close", now))
          /\ Raise("Exception")

\* connect_handler.recv: data, an empty string, or socket.timeout /
\* socket.error; then the finally clause
TcpRecv ==
    /\ ppc = "tcp_recv"
    /\ UNCHANGED <<testerVars, tableVars, callVars, printed, dst_endpoint,
                   ip_version, configVars,
                   timeout_sec, packets_sent, strategy, dtls_wrap, sent_time,
                   attempts, discarded, probes>>
    /\ Close
    /\ \/ \E d \in DelaysWithin(timeout_sec) :
            /\ now' = Later(d)
            /\ report_received_packet(sent_time, now')
            /\ events' = events \o <<Event("response", now'),
                                     Event("report_received_packet", sent_time),
                                     Event("close", now')>>
            /\ Return("data", dst_endpoint)
       \/ \E d \in DelaysWithin(timeout_sec) :
            /\ now' = Later(d)
            /\ UNCHANGED <<packets_received, packets_rtt>>
            /\ events' = events \o <<Event("empty_response", now'),
                                     Event("close", now')>>
            /\ Return("empty", dst_endpoint)
       \/ /\ now' \in {now, Later(timeout_sec)}
          /\ UNCHANGED <<packets_received, packets_rtt>>
          /\ events' = Append(events, Event("close", now'))
          /\ Return("None", NoEndpoint)

\* IPv4 hosts that may answer a multicast query
Hosts4 == {a \in AddrPool : IPY_version(a) = 4}

\* the addr of a datagram returned by sock.recvfrom
Sources == [ip_addr : Hosts4, port : Ports]

\* ssdp_send_query from socket.socket to the test of ip_version
ssdp_send_query ==
    /\ Enter("ssdp_send_query", FALSE)
    /\ sent_time' = NoTime
    /\ UNCHANGED <<statsVars, now, timeout_sec>>
    /\ \/ /\ sock' = "none"
          /\ UNCHANGED open_sockets
          /\ events' = <<>>
          /\ Raise("socket.error")
       \/ /\ sock' = "open"
          /\ open_sockets' = open_sockets + 1
          /\ events' = <<Event("socket", now)>>
          /\ IF ip_version = 4
             THEN Goto("ssdp_sendto")
             ELSE Return("None", NoEndpoint)

\* sock.sendto to the multicast group, then report_sent_packet and settimeout
SsdpSendto ==
    /\ ppc = "ssdp_sendto"
    /\ UNCHANGED <<testerVars, tableVars, callVars, printed, dst_endpoint,
                   ip_version, configVars,
                   timeout_sec, packets_received, packets_rtt, strategy,
                   dtls_wrap, sock, attempts, discarded, now, open_sockets,
                   probes>>
    /\ \/ /\ report_sent_packet
          /\ sent_time' = now
          /\ events' = events \o <<Event("transmit", now),
                                   Event("report_sent_packet", now)>>
          /\ Goto("ssdp_recvfrom")
       \/ /\ UNCHANGED <<packets_sent, sent_time, events>>
          /\ Raise("socket.error")

\* variant: only the address of the reply is compared
IsAwaited_AddressOnly(addr) == dst_endpoint.ip_addr = addr.ip_addr

\* (dst_endpoint.ip_addr, dst_endpoint.port) == addr
IsAwaited(addr) ==
    <<dst_endpoint.ip_addr, dst_endpoint.port>> = <<addr.ip_addr, addr.port>>

\* one pass of the while loop: sock.recvfrom and the test of addr
SsdpRecvfrom ==
    /\ ppc = "ssdp_recvfrom"
    /\ UNCHANGED <<testerVars, tableVars, callVars, printed, dst_endpoint,
                   ip_version, configVars,
                   timeout_sec, packets_sent, strategy, dtls_wrap, sent_time,
                   sock, attempts, open_sockets, probes>>
    /\ \/ \E addr \in Sources, d \in DelaysWithin(timeout_sec) :
            /\ now' = Later(d)
            /\ IF IsAwaited(addr)
               THEN /\ report_received_packet(sent_time, now')
                    /\ events' = events \o
                          <<Event("response", now'),
                            Event("report_received_packet", sent_time)>>
                    /\ UNCHANGED discarded
                    /\ Return("data", addr)
               ELSE /\ discarded < MaxReplies
                    /\ discarded' = discarded + 1
                    /\ events' = Append(events, Event("discard", now'))
                    /\ UNCHANGED <<packets_received, packets_rtt>>
                    /\ Goto("ssdp_recvfrom")
       \/ /\ UNCHANGED <<packets_received, packets_rtt, discarded, events>>
          /\ IF timeout_sec = 0
             THEN UNCHANGED now /\ Raise("socket.error")
             ELSE now' = Later(timeout_sec) /\ Return("None", NoEndpoint)
       \/ /\ UNCHANGED <<packets_received, packets_rtt, discarded, events,
                         now>>
          /\ Raise("socket.error")

(***************************************************************************)
(* Probe dispatcher and callers                                            *)
(***************************************************************************)
\* variant: SSDP is listed with the UDP protocols and has no test of its own
sr1_file_SsdpOverUdp ==
    /\ ppc = "ready"
    /\ probes < MaxProbes
    /\ UNCHANGED <<testerVars, tableVars, callVars, printed, dst_endpoint,
                   ip_version, configVars>>
    /\ \/ protocol \in {"CoAP", "DTLS", "mDNS", "SSDP"} /\ udp_sr1(FALSE)
       \/ protocol \in {"MQTT", "HTCPCP", "RTSP"} /\ tcp_sr1
       \/ /\ protocol \notin {"CoAP", "DTLS", "mDNS", "MQTT", "HTCPCP",
                              "RTSP", "SSDP"}
          /\ strategy' = "none"
          /\ probes' = probes + 1
          /\ Return("None", NoEndpoint)
          /\ events' = <<>>
          /\ sock' = "none"
          /\ sent_time' = NoTime
          /\ UNCHANGED <<timeout_sec, statsVars, dtls_wrap, attempts,
                         discarded, now, open_sockets>>

\* sr1_file: the three tests of test_params.protocol
sr1_file ==
    /\ ppc = "ready"
    /\ probes < MaxProbes
    /\ UNCHANGED <<testerVars, tableVars, callVars, printed, dst_endpoint,
                   ip_version, configVars>>
    /\ \/ protocol \in {"CoAP", "DTLS", "mDNS"} /\ udp_sr1(FALSE)
       \/ protocol \in {"MQTT", "HTCPCP", "RTSP"} /\ tcp_sr1
       \/ protocol \in {"SSDP"} /\ ssdp_send_query
       \/ /\ protocol \notin {"CoAP", "DTLS", "mDNS", "MQTT", "HTCPCP",
                              "RTSP", "SSDP"}
          /\ strategy' = "none"
          /\ probes' = probes + 1
          /\ Return("None", NoEndpoint)
          /\ events' = <<>>
          /\ sock' = "none"
          /\ sent_time' = NoTime
          /\ UNCHANGED <<timeout_sec, statsVars, dtls_wrap, attempts,
                         discarded, now, open_sockets>>

\* a caller uses udp_sr1(test_params, payload, dtls_wrap=True)
udp_sr1_dtls_wrap ==
    /\ ppc = "ready"
    /\ probes < MaxProbes
    /\ UNCHANGED <<testerVars, tableVars, callVars, printed, dst_endpoint,
                   ip_version, configVars>>
    /\ udp_sr1(TRUE)

\* the test function records the endpoint it has probed in the table of the
\* protocol: active when the probe returned a response, inactive when not
ClassifyEndpoint ==
    /\ ppc = "ready"
    /\ classified < probes
    /\ probe_raised = "none"
    /\ classified' = probes
    /\ IF returned = "None"
       THEN /\ inactive_endpoints' =
                  [inactive_endpoints EXCEPT ![protocol] = Append(@, dst_endpoint)]
            /\ UNCHANGED active_endpoints
       ELSE /\ active_endpoints' =
                  [active_endpoints EXCEPT ![protocol] = Append(@, dst_endpoint)]
            /\ UNCHANGED inactive_endpoints
    /\ UNCHANGED <<testerVars, dst_endpoint, ip_version, configVars,
                   timeout_sec, statsVars, probeVars, potential_endpoints,
                   callVars, printed>>

\* a TestParams as a run of perform_testing leaves it for the test function
InitProbe ==
    /\ InitTester
    /\ argv = NoArgv
    /\ dst_endpoint \in [ip_addr : AddrPool, port : Ports]
    /\ ip_version \in {4, 6}
    /\ IPY_version(dst_endpoint.ip_addr) = 6 => ip_version = 6
    /\ protocol \in Protocol
    /\ timeout_sec \in Timeouts
    /\ nr_retries \in Retries
    /\ InitStats
    /\ InitNoProbe
    /\ InitReport
    /\ InitNoCall

NextProbe ==
    \/ sr1_file
    \/ udp_sr1_dtls_wrap
    \/ Sr1Attempt
    \/ DtlsConnect
    \/ DtlsSend
    \/ DtlsRecv
    \/ TcpConnect
    \/ TcpSend
    \/ TcpRecv
    \/ SsdpSendto
    \/ SsdpRecvfrom
    \/ ClassifyEndpoint

SpecProbe == InitProbe /\ [][NextProbe]_vars

(***************************************************************************)
(* Helper functions and the report, called on their own                    *)
(***************************************************************************)
\* variant: SSDP is not listed among the protocols carried over UDP
protocol_enabled_SsdpNotUdp(candidate, proto_mask) ==
    IF proto_mask = "ALL" THEN TRUE
    ELSE IF proto_mask = candidate THEN TRUE
    ELSE IF proto_mask = "TCP" /\ candidate \in {"MQTT", "HTCPCP", "RTSP"}
    THEN TRUE
    ELSE IF proto_mask = "UDP" /\ candidate \in {"CoAP", "DTLS", "mDNS"}
    THEN TRUE
    ELSE FALSE

\* protocol_enabled(protocol, proto_mask)
protocol_enabled(candidate, proto_mask) ==
    IF proto_mask = "ALL" THEN TRUE
    ELSE IF proto_mask = candidate THEN TRUE
    ELSE IF proto_mask = "TCP" /\ candidate \in {"MQTT", "HTCPCP", "RTSP"}
    THEN TRUE
    ELSE IF proto_mask = "UDP" /\ candidate \in {"CoAP", "DTLS", "mDNS", "SSDP"}
    THEN TRUE
    ELSE FALSE

\* variant: the ratio in percent, the baseline of 100 not taken off
amplification_factor_NoBaseline(input_size, output_size) ==
    IF input_size # 0
    THEN (100 * output_size) \div input_size
    ELSE 0

\* amplification_factor(input_size, output_size): the sizes are integers, so
\* the division is the integer division of Python 2
amplification_factor(input_size, output_size) ==
    IF input_size # 0
    THEN ((100 * output_size) \div input_size) - 100
    ELSE 0

\* the largest packet count and the largest small size a call is made with,
\* the longest list a classification table holds under one protocol
MaxPackets == 3

MaxListed == 2

MaxSize == 3

Sizes == (0..MaxSize) \cup {100, 200}

CallPool ==
    {[fn |-> "protocol_enabled", args |-> <<candidate, proto_mask>>] :
        candidate \in Protocol, proto_mask \in Protocol}
    \cup {[fn |-> "message_loss", args |-> <<sent, received>>] :
        sent \in 0..MaxPackets, received \in 0..MaxPackets}
    \cup {[fn |-> "amplification_factor", args |-> <<input_size, output_size>>] :
        input_size \in Sizes, output_size \in Sizes}

\* endpoints a test function records, and the lists of a table
ListedEndpoints == [ip_addr : {Addr4a, Addr4b}, port : {MaxPort}]

Lists == SeqUpTo(ListedEndpoints, MaxListed)

\* tables with lists under the given protocols and none under the others
Tables(first, second) ==
    {[proto \in Protocol |->
        IF proto = first THEN a ELSE IF proto = second THEN b ELSE <<>>] :
     a \in Lists, b \in IF first = second THEN {<<>>} ELSE Lists}

\* round-trip samples at report time: none, or two probes of 1 ms and 4 ms
RttPool == {<<>>, <<1, 4>>}

\* the labels as set by __init__, or one of them cleared by the tool
NamePool ==
    {DefaultNames} \cup {[DefaultNames EXCEPT ![name] = FALSE] :
                            name \in DOMAIN DefaultNames}

\* the process before a helper function or the report is called: a call with
\* its arguments on fresh statistics, or statistics as a run has left them
InitCalc ==
    /\ InitTester
    /\ argv = NoArgv
    /\ dst_endpoint = LocalEndpoint
    /\ ip_version = 4
    /\ protocol = "ALL"
    /\ timeout_sec = TicksPerSec
    /\ nr_retries = 0
    /\ InitNoProbe
    /\ printed = NoLine
    /\ result = <<>>
    /\ \/ /\ call \in CallPool
          /\ InitStats
          /\ result_names = DefaultNames
       \/ /\ call = [fn |-> "print_stats", args |-> <<>>]
          /\ packets_rtt \in RttPool
          /\ packets_received = Len(packets_rtt)
          /\ packets_sent = packets_received + 1
          /\ active_endpoints \in Tables("CoAP", "MQTT")
          /\ potential_endpoints \in Tables("CoAP", "CoAP")
          /\ inactive_endpoints \in Tables("MQTT", "MQTT")
          /\ result_names \in NamePool

\* everything a helper function leaves alone
calleeFrame ==
    <<testerVars, tableVars, statsVars, probeVars, configVars, dst_endpoint,
      ip_version, timeout_sec, result_names, printed, call>>

CallProtocolEnabled ==
    /\ call.fn = "protocol_enabled"
    /\ result = <<>>
    /\ result' = <<protocol_enabled(call.args[1], call.args[2])>>
    /\ UNCHANGED calleeFrame

CallMessageLoss ==
    /\ call.fn = "message_loss"
    /\ result = <<>>
    /\ result' = <<message_loss(call.args[1], call.args[2])>>
    /\ UNCHANGED calleeFrame

CallAmplificationFactor ==
    /\ call.fn = "amplification_factor"
    /\ result = <<>>
    /\ result' = <<amplification_factor(call.args[1], call.args[2])>>
    /\ UNCHANGED calleeFrame

\* print_stats on the statistics of the run
CallPrintStats ==
    /\ call.fn = "print_stats"
    /\ printed = NoLine
    /\ print_stats
    /\ UNCHANGED <<pc, list_ips, list_ports, show_disclaimer, test_cases,
                   ip_idx, port_idx, run, calls, disclaimers, outcome, raised,
                   argv, exit_message>>
    /\ UNCHANGED <<tableVars, statsVars, probeVars, configVars, dst_endpoint,
                   ip_version, timeout_sec, callVars>>

NextCalc ==
    \/ CallProtocolEnabled
    \/ CallMessageLoss
    \/ CallAmplificationFactor
    \/ CallPrintStats

SpecCalc == InitCalc /\ [][NextCalc]_vars

(***************************************************************************)
(* Properties of CotopaxiTester.perform_testing (checked under Spec)       *)
(***************************************************************************)
\* C1: every run of perform_testing calls print_stats exactly once before
\* it ends, whether the loops complete, the operator interrupts, or the
\* test function raises; print_stats is not called while the run is going.
C1_StatsPrintedOnce ==
    /\ pc = "done" => stats_printed = 1 /\ outcome \in {"completed", "interrupted", "error"}
    /\ pc \in {"running", "in_test"} => stats_printed = 0

C1_Witness ==
    /\ pc = "done"
    /\ outcome = "error"
    /\ raised = "Exception"
    /\ Len(calls) = 2
    /\ stats_printed = 1

\* C2: once KeyboardInterrupt has occurred in the loop, the run is over: no
\* further pair is passed to the test function, nothing is raised out of
\* perform_testing, and print_stats has run.
C2_InterruptStopsLoop ==
    /\ [](outcome = "interrupted" =>
            pc = "done" /\ raised = "none" /\ stats_printed = 1)
    /\ [][outcome' = "interrupted" /\ run' = run => calls' = calls]_vars

C2_Witness ==
    /\ outcome = "interrupted"
    /\ pc = "done"
    /\ Len(calls) = 1
    /\ Len(list_ips) * Len(list_ports) = 4

\* the k-th pair of list_ips x list_ports, addresses outermost
PairAt(k) ==
    [ip_addr |-> list_ips[((k - 1) \div Len(list_ports)) + 1],
     port |-> list_ports[((k - 1) % Len(list_ports)) + 1]]

\* the invocations made so far are the first pairs of list_ips x list_ports
\* in order, each once, and all of them once the loops have completed
CallsFollowTargets ==
    /\ Len(calls) <= Len(list_ips) * Len(list_ports)
    /\ \A k \in DOMAIN calls : calls[k].dst = PairAt(k)
    /\ outcome = "completed" => Len(calls) = Len(list_ips) * Len(list_ports)

\* C3: without interrupt or error the test function is invoked once per
\* pair of list_ips x list_ports, addresses outermost, dst_endpoint holding
\* the pair, and a test-case collection that was given is passed on as is.
C3_EveryPairInOrderWithCases ==
    /\ CallsFollowTargets
    /\ \A k \in DOMAIN calls :
          test_cases.given => calls[k].nargs = 2 /\ calls[k].cases = test_cases

\* C4: at every invocation of the test function ip_version is the IP
\* version of the address in dst_endpoint.
C4_IpVersionOfDestination ==
    \A k \in DOMAIN calls :
        calls[k].ip_version = IPY_version(calls[k].dst.ip_addr)

(***************************************************************************)
(* Properties of the transport strategies (checked under SpecProbe)        *)
(***************************************************************************)
\* C5: no strategy lets an ordinary network failure (socket.error,
\* socket.timeout) leave the call: the call returns None instead.
C5_NoNetworkFailurePropagates ==
    ppc = "ready" /\ strategy # "none" =>
        probe_raised # "socket.error" /\ returned # "unset"

\* C6: in every strategy report_sent_packet has been called before the
\* payload is transmitted.
C6_SentHookBeforeTransmission ==
    \A k \in DOMAIN events :
        events[k].ev = "transmit" =>
            \E j \in 1..(k - 1) : events[j].ev = "report_sent_packet"

\* C7: a probe that has obtained a response has called
\* report_received_packet exactly once, with the token of its own single
\* report_sent_packet call.
C7_ResponseReportedOnce ==
    ppc = "ready" /\ Count("response") > 0 =>
        /\ Count("report_sent_packet") = 1
        /\ Count("report_received_packet") = 1
        /\ \A j, k \in DOMAIN events :
              /\ events[j].ev = "report_sent_packet"
              /\ events[k].ev = "report_received_packet"
              => events[k].at = events[j].at

\* C8: tcp_sr1 creates at most one socket per probe and has closed it when
\* it returns or raises, whatever happened in between.
C8_TcpSocketClosedOnReturn ==
    strategy = "tcp_sr1" =>
        /\ Count("socket") <= 1
        /\ ppc = "ready" => sock # "open" /\ Count("close") = Count("socket")
        /\ ppc # "ready" => sock = "open" /\ Count("close") = 0

C8_Witness ==
    /\ strategy = "tcp_sr1"
    /\ ppc = "ready"
    /\ probe_raised = "Exception"
    /\ Count("socket") = 1
    /\ sock = "closed"

\* C9: whenever a strategy has given control back, no socket it created is
\* still open.
C9_NoOpenSocketAfterProbe == ppc = "ready" => open_sockets = 0

\* C10: ssdp_send_query returns a reply only if its source is exactly
\* (dst_endpoint.ip_addr, dst_endpoint.port); a reply from elsewhere leaves
\* the call waiting, is not counted in packets_received and is not returned.
C10_OnlyAwaitedReplyReturned ==
    /\ [](strategy = "ssdp_send_query" /\ returned = "data" =>
            returned_from = dst_endpoint)
    /\ [][strategy = "ssdp_send_query" /\ discarded' > discarded =>
            /\ ppc' = "ssdp_recvfrom"
            /\ returned' = "unset"
            /\ packets_received' = packets_received]_vars
    /\ [][strategy' = "ssdp_send_query" /\ packets_received' # packets_received =>
            /\ packets_received' = packets_received + 1
            /\ returned' = "data"
            /\ returned_from' = dst_endpoint]_vars

C10_Witness ==
    /\ strategy = "ssdp_send_query"
    /\ ppc = "ready"
    /\ returned = "data"
    /\ discarded = 2
    /\ packets_received = 1

\* C11: ssdp_send_query ends its wait when the timeout of the probe has
\* elapsed: as long as no reply from the destination has come, the call is
\* waiting, or has returned None, no later than timeout_sec after the
\* transmission, however many replies from other sources arrive.
C11_SsdpWaitWithinProbeTimeout ==
    /\ strategy = "ssdp_send_query"
    /\ sent_time # NoTime
    /\ ppc = "ssdp_recvfrom" \/ (ppc = "ready" /\ returned = "None")
    => now - sent_time <= timeout_sec

\* C12: with ip_version 6 ssdp_send_query gives up before any socket
\* operation: no socket is created, nothing is transmitted, no hook is
\* called, and the call returns None.
C12_SsdpIPv6NoSocketOperation ==
    strategy = "ssdp_send_query" /\ ip_version = 6 =>
        /\ Count("socket") = 0
        /\ Count("transmit") = 0
        /\ Count("report_sent_packet") = 0
        /\ Count("report_received_packet") = 0
        /\ sock = "none"
        /\ ppc = "ready" /\ returned = "None"

\* C13: in tcp_sr1 a receive that returns on the connected socket, with data
\* or with none, adds one to packets_received and one sample to packets_rtt;
\* a probe that ends without a receive leaves both unchanged.
C13_TcpAnyReceiveCounts ==
    /\ [][ppc = "tcp_recv" /\ returned' \in {"data", "empty"} =>
            /\ packets_received' = packets_received + 1
            /\ Len(packets_rtt') = Len(packets_rtt) + 1]_vars
    /\ [][strategy' = "tcp_sr1" /\ returned' = "None" =>
            UNCHANGED <<packets_received, packets_rtt>>]_vars

\* the strategy the dispatcher is to use for a protocol
StrategyFor(proto) ==
    CASE proto \in {"CoAP", "DTLS", "mDNS"} -> "udp_sr1"
      [] proto \in {"MQTT", "HTCPCP", "RTSP"} -> "tcp_sr1"
      [] proto = "SSDP" -> "ssdp_send_query"
      [] OTHER -> "none"

\* C14: a call of sr1_file enters exactly the strategy of the protocol
\* (CoAP, DTLS, mDNS: udp_sr1 without wrapping; MQTT, HTCPCP, RTSP: tcp_sr1;
\* SSDP: ssdp_send_query); for ALL, UDP and TCP it enters none, returns None
\* and leaves the statistics and the sockets alone.
C14_DispatchByProtocol ==
    [][ppc = "ready" /\ probes' = probes + 1
         /\ ~(strategy' = "udp_sr1" /\ dtls_wrap') =>
            /\ strategy' = StrategyFor(protocol)
            /\ StrategyFor(protocol) = "none" =>
                  /\ ppc' = "ready"
                  /\ returned' = "None"
                  /\ probe_raised' = "none"
                  /\ events' = <<>>
                  /\ open_sockets' = open_sockets
                  /\ UNCHANGED statsVars]_vars

C14_Witness ==
    /\ protocol = "TCP"
    /\ probes = 2
    /\ strategy = "none"
    /\ ppc = "ready"
    /\ returned = "None"
    /\ packets_sent = 0

\* C15: whenever udp_sr1 waits on the network, plain or with dtls_wrap, a
\* timeout of at least Epsilon is in force on the operation.
C15_UdpTimeoutStrictlyPositive ==
    strategy = "udp_sr1" /\ ppc # "ready" =>
        AppliedTimeout # NoTimeout /\ AppliedTimeout >= Epsilon

\* the tables in which an endpoint is recorded
TablesOf(endpoint) ==
    {<<"active", proto>> : proto \in
        {q \in Protocol : endpoint \in Range(active_endpoints[q])}}
    \cup {<<"potential", proto>> : proto \in
        {q \in Protocol : endpoint \in Range(potential_endpoints[q])}}
    \cup {<<"inactive", proto>> : proto \in
        {q \in Protocol : endpoint \in Range(inactive_endpoints[q])}}

\* C16: a single CoAP probe without retries that gets no response leaves
\* packets_sent = 1, packets_received = 0, a loss of 100 %, no RTT sample and
\* the endpoint recorded in the inactive table only; in general a udp_sr1
\* probe adds exactly one to packets_sent, and one that returns None leaves
\* packets_received and packets_rtt unchanged.
C16_NoResponseProbeStatistics ==
    /\ [](/\ protocol = "CoAP"
          /\ nr_retries = 0
          /\ probes = 1
          /\ classified = 1
          /\ returned = "None"
          => /\ packets_sent = 1
             /\ packets_received = 0
             /\ message_loss(packets_sent, packets_received).num =
                  100 * message_loss(packets_sent, packets_received).den
             /\ packets_rtt = <<>>
             /\ TablesOf(dst_endpoint) = {<<"inactive", "CoAP">>})
    /\ [][strategy' = "udp_sr1" /\ probes' = probes + 1 =>
            packets_sent' = packets_sent + 1]_vars
    /\ [][strategy = "udp_sr1" /\ ppc # "ready" =>
            packets_sent' = packets_sent]_vars
    /\ [][strategy' = "udp_sr1" /\ ppc # "ready" /\ returned' = "None" =>
            UNCHANGED <<packets_received, packets_rtt>>]_vars

C16_Witness ==
    /\ protocol = "CoAP"
    /\ nr_retries = 0
    /\ strategy = "udp_sr1"
    /\ ~dtls_wrap
    /\ attempts = 1
    /\ probes = 1
    /\ classified = 1
    /\ returned = "None"
    /\ packets_sent = 1
    /\ Len(inactive_endpoints["CoAP"]) = 1

(***************************************************************************)
(* Properties of the target-space parser (checked under SpecParse).  The   *)
(* readings below say what a specification names, item by item, by writing *)
(* the numbers out and comparing the texts.                                *)
(***************************************************************************)
\* the ports and the IPv4 addresses (as 32-bit values) the readings consider
PortCandidates == 0..(MaxPort + 1) \cup 101..105 \cup {242}

AddrCandidates == {16777216 + k : k \in 0..15} \cup {33554432 + k : k \in 0..3}

PrefixLens == {30, 31, 32}

RangeText(low, high) == DecimalText(low) \o <<"-">> \o DecimalText(high)

\* the texts of the addresses and of the blocks considered
AddrTextOf == [a \in AddrCandidates |-> Dotted(a)]

CidrTextOf ==
    [a \in AddrCandidates, n \in PrefixLens |->
        Dotted(a) \o <<"/">> \o DecimalText(n)]

ItemsOf(text) == Range(Split(text, ","))

\* item is a single port, or a range low-high with low <= high
IsPortItem(item) ==
    \/ \E p \in PortCandidates : item = DecimalText(p)
    \/ \E l, h \in PortCandidates : l <= h /\ item = RangeText(l, h)

\* item is a range low-high with low > high
IsReversedRange(item) ==
    \E l, h \in PortCandidates : l > h /\ item = RangeText(l, h)

\* item names port p
PortItemNames(item, p) ==
    \/ item = DecimalText(p)
    \/ \E l, h \in PortCandidates :
          l <= p /\ p <= h /\ item = RangeText(l, h)

NamedPorts(text) ==
    {p \in PortCandidates : \E item \in ItemsOf(text) : PortItemNames(item, p)}

\* item is a single address or a CIDR block
IsAddrItem(item) ==
    \/ item \in IPv6Pool
    \/ \E a \in AddrCandidates :
          \/ item = AddrTextOf[a]
          \/ \E n \in PrefixLens : item = CidrTextOf[a, n]

IsCidrItem(item) == \E k \in DOMAIN item : item[k] = "/"

\* item names the address with text t
AddrItemNames(item, t) ==
    \/ item = t
    \/ /\ IsCidrItem(item)
       /\ \E n \in PrefixLens : \E b \in AddrCandidates :
             /\ item = CidrTextOf[b, n]
             /\ \E a \in AddrCandidates :
                   /\ t = AddrTextOf[a]
                   /\ a \div Pow2(32 - n) = b \div Pow2(32 - n)

NamedAddrs(text) ==
    {t \in Range(AddrTextOf) \cup IPv6Pool :
        \E item \in ItemsOf(text) : AddrItemNames(item, t)}

\* parse_args has come to its end, one way or the other
ParseStep == pc = "idle" /\ pc' \in {"parsed", "exited"}

\* C17: a malformed address or port specification ends the process inside
\* parse_args with a message that names the cause; the process has then
\* invoked no test function and sent nothing, and does nothing more.
C17_MalformedTargetIsFatal ==
    /\ [][ParseStep /\ (\E item \in ItemsOf(argv.dest_ip) : ~IsAddrItem(item)) =>
            pc' = "exited" /\ exit_message' = "Cannot parse IP address"]_vars
    /\ [][/\ ParseStep
          /\ \A item \in ItemsOf(argv.dest_ip) : IsAddrItem(item)
          /\ \E item \in ItemsOf(argv.dest_port) :
                ~IsPortItem(item) /\ ~IsReversedRange(item)
          => pc' = "exited" /\ exit_message' = "Cannot parse port"]_vars
    /\ [](pc = "exited" =>
            /\ exit_message # "none"
            /\ run = 0
            /\ calls = <<>>
            /\ packets_sent = 0
            /\ probes = 0)
    /\ [][pc # "exited"]_vars

C17_Witness ==
    /\ pc = "exited"
    /\ exit_message = "Cannot parse port"
    /\ argv.dest_port = <<"2", ",", "x">>
    /\ list_ips = <<Addr4a>>
    /\ calls = <<>>

\* C18: a port specification with a range low-high where low > high makes
\* prepare_ports fail with the invalid-port message.
C18_ReversedRangeRejected ==
    [][/\ ParseStep
       /\ \A item \in ItemsOf(argv.dest_ip) : IsAddrItem(item)
       /\ \E item \in ItemsOf(argv.dest_port) : IsReversedRange(item)
       => pc' = "exited" /\ exit_message' = "Cannot parse port"]_vars

\* C19: for a port specification whose items are single ports and ranges
\* low-high with low <= high, prepare_ports returns the strictly increasing
\* list of exactly the ports some item names; "101,103-105,104,242" gives
\* 101, 103, 104, 105, 242.
C19_PortsSortedUnique ==
    /\ [][/\ ParseStep
          /\ \A item \in ItemsOf(argv.dest_ip) : IsAddrItem(item)
          /\ \A item \in ItemsOf(argv.dest_port) : IsPortItem(item)
          => /\ pc' = "parsed"
             /\ \A m, n \in DOMAIN list_ports' :
                   m < n => list_ports'[m] < list_ports'[n]
             /\ Range(list_ports') = NamedPorts(argv.dest_port)]_vars
    /\ [][ParseStep /\ argv.dest_port = ExamplePortSpec =>
            list_ports' = <<101, 103, 104, 105, 242>>]_vars

C19_Witness ==
    /\ pc = "parsed"
    /\ argv.dest_port = ExamplePortSpec
    /\ list_ports = <<101, 103, 104, 105, 242>>

\* C20: for a valid address specification prepare_ips returns every single
\* address and every address of every CIDR block, each once, in the order
\* of their texts; without CIDR blocks the result is the set of the items.
C20_IpsExpandedInTextOrder ==
    [][/\ ParseStep
       /\ \A item \in ItemsOf(argv.dest_ip) : IsAddrItem(item)
       => /\ \A m, n \in DOMAIN list_ips' :
                m < n => StrLess(list_ips'[m], list_ips'[n])
          /\ Range(list_ips') = NamedAddrs(argv.dest_ip)
          /\ (\A item \in ItemsOf(argv.dest_ip) : ~IsCidrItem(item)) =>
                Range(list_ips') = ItemsOf(argv.dest_ip)]_vars

C20_Witness ==
    /\ pc = "parsed"
    /\ list_ips = <<<<"1", ".", "0", ".", "0", ".", "1", "0">>,
                    <<"1", ".", "0", ".", "0", ".", "1", "1">>,
                    <<"1", ".", "0", ".", "0", ".", "8">>,
                    <<"1", ".", "0", ".", "0", ".", "9">>>>

(***************************************************************************)
(* Properties of the helper functions and the report (checked under        *)
(* SpecCalc)                                                               *)
(***************************************************************************)
\* the containment of protocols: ALL holds every protocol, every protocol
\* holds itself, UDP and TCP hold the protocols carried over them
Holds ==
    {<<"ALL", p>> : p \in Protocol}
    \cup {<<p, p>> : p \in Protocol}
    \cup {<<"UDP", p>> : p \in {"CoAP", "DTLS", "mDNS", "SSDP"}}
    \cup {<<"TCP", p>> : p \in {"MQTT", "HTCPCP", "RTSP"}}

Returned(fn) == call.fn = fn /\ result # <<>>

C22_MessageLossClamped ==
    Returned("message_loss") =>
        LET sent == call.args[1]
            received == call.args[2]
            loss == result[1]
        IN  /\ loss.den > 0
            /\ IF sent > 0 /\ received <= sent
               THEN loss.num * sent = 100 * (sent - received) * loss.den
               ELSE loss.num = 0
            /\ sent >= received => 0 <= loss.num /\ loss.num <= 100 * loss.den
            /\ sent = 0 => loss.num = 0
            /\ received > sent => loss.num >= 0

C22_Witness ==
    /\ Returned("message_loss")
    /\ call.args = <<MaxPackets, 1>>
    /\ result[1].num * MaxPackets = 100 * (MaxPackets - 1) * result[1].den

\* the distinct endpoints a table lists, whatever the protocol
Distinct(table) ==
    {e \in ListedEndpoints :
        \E proto \in Protocol : \E k \in DOMAIN table[proto] : table[proto][k] = e}

\* C23: with a positive-result label, the report of print_stats shows three
\* totals over all protocols: the distinct endpoints of the active table; the
\* distinct endpoints of the potential table not counted active (where that
\* label is set and the table lists any); the distinct endpoints of the
\* inactive table in neither of the other two (where that label is set).  The
\* round-trip line is printed exactly when packets_rtt has a sample.
C23_ThreeDeduplicatedTotals ==
    printed # NoLine =>
        LET report == printed[1]
            active == Distinct(active_endpoints)
            potential == Distinct(potential_endpoints) \ active
            inactive == (Distinct(inactive_endpoints) \ active)
                            \ Distinct(potential_endpoints)
        IN  /\ (report.rtt # NoLine) <=> (Len(packets_rtt) >= 1)
            /\ result_names.positive =>
                /\ report.active_total = <<Cardinality(active)>>
                /\ result_names.potential /\ Distinct(potential_endpoints) # {}
                       => report.potential_total = <<Cardinality(potential)>>
                /\ result_names.negative
                       => report.inactive_total = <<Cardinality(inactive)>>

\* C24 as stated: amplification_factor(input_size, output_size) is exactly
\* 100 * output_size / input_size - 100 when input_size is not 0, and 0 when
\* it is 0, for all sizes from 0 up.
C24_AmplificationExact ==
    Returned("amplification_factor") =>
        LET input_size == call.args[1]
            output_size == call.args[2]
        IN  IF input_size # 0
            THEN (result[1] + 100) * input_size = 100 * output_size
            ELSE result[1] = 0

\* C24 amended: amplification_factor(input_size, output_size) is the whole
\* percentage 100 * output_size / input_size rounded down, less 100, when
\* input_size is not 0, and 0 when it is 0; so (100, 200) gives 100,
\* (100, 100) gives 0 and (0, x) gives 0 for every x.
C24_AmplificationRoundedDown ==
    Returned("amplification_factor") =>
        LET input_size == call.args[1]
            output_size == call.args[2]
            percent == result[1] + 100
        IN  /\ input_size # 0 =>
                /\ percent * input_size <= 100 * output_size
                /\ 100 * output_size < (percent + 1) * input_size
            /\ input_size = 0 => result[1] = 0
            /\ call.args = <<100, 200>> => result[1] = 100
            /\ call.args = <<100, 100>> => result[1] = 0

\* 100 * 2 / 3 is 66 and two thirds: the call returns 66 - 100
C24_Witness ==
    /\ Returned("amplification_factor")
    /\ call.args = <<3, 2>>
    /\ result[1] = 66 - 100

(***************************************************************************)
(* Properties of the statistics and the configuration across probes        *)
(* (checked under SpecProbe)                                               *)
(***************************************************************************)
\* C25: after any sequence of probes on one TestParams, packets_rtt has
\* exactly packets_received entries, every entry is an integer from 0 up, and
\* a step only ever appends to the list: entries already stored stay as they
\* are.  One TCP probe answered with data leaves one send, one receive and
\* one sample.
C25_RttSamplesAppendOnly ==
    /\ [](/\ Len(packets_rtt) = packets_received
          /\ \A k \in DOMAIN packets_rtt : packets_rtt[k] \in Nat)
    /\ [][/\ Len(packets_rtt') >= Len(packets_rtt)
          /\ \A k \in DOMAIN packets_rtt : packets_rtt'[k] = packets_rtt[k]]_vars
    /\ [](/\ probes = 1
          /\ strategy = "tcp_sr1"
          /\ ppc = "ready"
          /\ returned = "data"
          => /\ packets_sent = 1
             /\ packets_received = 1
             /\ Len(packets_rtt) = 1)

\* two responses counted, the later sample appended behind the earlier one
C25_Witness ==
    /\ packets_received = 2
    /\ packets_rtt = <<1, 0>>
    /\ ppc = "ready"

\* C26: in every state reached by probes through tcp_sr1, udp_sr1 and
\* ssdp_send_query, in either mode and whatever mix of responses, timeouts
\* and errors, 0 <= packets_received <= packets_sent.
C26_ReceivedAtMostSent ==
    /\ 0 <= packets_received
    /\ packets_received <= packets_sent

\* every probe made has been answered, through more than one strategy call
C26_Witness ==
    /\ probes = MaxProbes
    /\ ppc = "ready"
    /\ packets_sent = MaxProbes
    /\ packets_received = packets_sent

\* a step a probe takes while nothing arrives from the network: no datagram
\* is read and no failure is reported on the socket (a non-blocking recvfrom
\* with nothing queued fails at once, which is such a step)
PeerEvents == {"response", "empty_response", "discard"}

SilentStep ==
    /\ NextProbe
    /\ \A k \in DOMAIN events' : events'[k].ev \in PeerEvents => k \in DOMAIN events
    /\ \/ probe_raised' = "none"
       \/ ppc = "ssdp_recvfrom" /\ timeout_sec = 0

\* C27: every call of tcp_sr1, of udp_sr1 (plain with any nr_retries, and with
\* dtls_wrap) and of ssdp_send_query comes back to its caller even when the
\* peer never sends anything: wherever a probe stands, it has a step to take
\* without the peer.
C27_ProbeReturnsFromSilentPeer ==
    ppc # "ready" => ENABLED SilentStep

\* C28: a strategy call changes nothing in TestParams but the statistics:
\* dst_endpoint, protocol, timeout_sec, nr_retries and ip_version are after
\* every step of tcp_sr1, udp_sr1 and ssdp_send_query what they were before
\* it, for every configuration, timeout_sec = 0 included.
C28_StrategyKeepsConfiguration ==
    [][UNCHANGED <<dst_endpoint, protocol, timeout_sec, nr_retries,
                   ip_version>>]_vars

====
